---- MODULE Spec2Model ----
(***************************************************************************)
(* Model of deimos.wrapper.osc_calculator.OscCalculator: the matter model  *)
(* (set_matter), the calculation entry point (calc_osc_prob) and the       *)
(* per-backend calculation paths, with the nuSQuIDS baseline path modelled *)
(* step by step (distance loop, layer loop, evaluation).                   *)
(*                                                                         *)
(* Distances, layer endpoints, densities and electron fractions are small  *)
(* non-negative integers standing for the floats of the code.              *)
(***************************************************************************)
EXTENDS Integers, Sequences, FiniteSets, TLC

\* ---------------------------------------------------------------- bounds
MaxLayers == 2      \* longest layer list handed to set_matter("layers")
MaxEndpoint == 2    \* largest layer endpoint [km]
MaxDist == 2        \* largest requested distance L [km]
MaxGrid == 2        \* longest distance / coszen grid handed to calc_osc_prob
MaxDensity == 2     \* densities are 1..MaxDensity
MaxEfrac == 1       \* electron fractions are 1..MaxEfrac
MaxCalls == 3       \* API calls made on one calculator after construction
MaxAngle == 2       \* mixing angles are 1..MaxAngle
MaxPhase == 1       \* CP phases are 0..MaxPhase
MaxSplitting == 2   \* mass splittings are 1..MaxSplitting
MaxGamma == 3       \* diagonal entries of a D matrix are 0..MaxGamma
MaxBeta == 1        \* off-diagonal entries of a D matrix are 0..MaxBeta
MaxEnergies == 1    \* longest energy array handed to calc_osc_prob
MaxExponent == 1    \* energy-dependence exponents n are 0..MaxExponent

Tools == {"nusquids", "deimos", "prob3"}

\* The known flavor labels (deimos.utils.constants.FLAVORS).
FLAVORS == <<"e", "mu", "tau">>
Densities == 1..MaxDensity
Efracs == 1..MaxEfrac
Endpoints == 0..MaxEndpoint
Dists == 0..MaxDist

SeqsUpTo(S, n) == UNION {[1..k -> S] : k \in 0..n}

ConstantKeys == {"matter_density_g_per_cm3", "electron_fraction"}
LayerKeys == {"layer_endpoint_km", "matter_density_g_per_cm3", "electron_fraction"}

VARIABLES
    tool,             \* self.tool
    atmospheric,      \* self.atmospheric
    num_neutrinos,    \* self.num_neutrinos
    matter_settings,  \* self._matter_settings (a dict)
    nusq,             \* the nuSQuIDS object: body, track, propagated state
    solver_V,         \* matter potential held by the DensityMatrixOscSolver
    prob3_settings,   \* self._prob3_settings (a dict)
    pc,               \* position inside calc_osc_prob ("idle" outside of it)
    req,              \* arguments of the running / last calc_osc_prob call
    i_L,              \* index in the distance loop
    i_layer,          \* index in the layer loop (position of zip)
    L_so_far,         \* running distance of the layer loop
    results,          \* per distance: the backend state that was evaluated
    calls,            \* backend calls issued by the running / last calc_osc_prob
    err,              \* why the last calc_osc_prob raised ("" if it did not)
    last,             \* the last API call and its outcome
    n_calls,          \* number of API calls made so far
    matter_ok,        \* the last set_matter call returned (did not raise)
    nusq_osc,         \* mixing angles, CP phase, mass splittings in nuSQuIDS
    solver_osc,       \* the same, in the DensityMatrixOscSolver
    prob3_osc,        \* the same, as keys of self._prob3_settings
    supplied,         \* the values last handed to the parameter setters
    D_in,             \* the matrix handed to check_decoherence_D_matrix
    verdict,          \* outcome of the last check_decoherence_D_matrix call
    flavors,          \* self.flavors
    nusquids_variant, \* self._nusquids_variant
    decoh_model_kw,   \* self._decoh_model_kw
    lightcone_model_kw, \* self._lightcone_model_kw
    sme_model_kw,     \* self._sme_model_kw
    nusq_bsm,         \* decoherence / lightcone / LIV settings held by nuSQuIDS
    calc_basis,       \* self._calc_basis
    osc_probs,        \* what the last calc_osc_prob returned
    lookup            \* the last _get_flavor_index call and its outcome

vars == <<tool, atmospheric, num_neutrinos, matter_settings, nusq, solver_V,
          prob3_settings, pc, req, i_L, i_layer, L_so_far, results, calls,
          err, last, n_calls, matter_ok, nusq_osc, solver_osc, prob3_osc,
          supplied, D_in, verdict, flavors, nusquids_variant, decoh_model_kw,
          lightcone_model_kw, sme_model_kw, nusq_bsm, calc_basis, osc_probs,
          lookup>>

oscvars == <<nusq_osc, solver_osc, prob3_osc, supplied>>
decohvars == <<D_in, verdict>>
bsmvars == <<decoh_model_kw, lightcone_model_kw, sme_model_kw, nusq_bsm,
            calc_basis>>
config == <<tool, atmospheric, num_neutrinos, flavors, nusquids_variant>>

\* ------------------------------------------------------- nuSQuIDS object
\* Media (nsq.Vacuum(), nsq.EarthAtm(), nsq.ConstantDensity(d, e),
\* nsq.VariableDensity(...)) and tracks (Body.Track(length)).
Vacuum == [kind |-> "Vacuum"]
EarthAtm == [kind |-> "EarthAtm"]
VariableDensity == [kind |-> "VariableDensity"]
ConstantDensity(d, e) == [kind |-> "ConstantDensity", density |-> d, efrac |-> e]
Track(k, len) == [kind |-> k, len |-> len]
NoTrack == [kind |-> "none", len |-> 0]

\* The propagated state is kept as its history: whether an initial state was
\* supplied, and the (medium, track) segments it was evolved through since.
NoState == [init |-> FALSE, segs |-> <<>>]

Set_Body(n, b) == [n EXCEPT !.body = b]
Set_EarthModel(n, b) == [n EXCEPT !.body = b]
Set_Track(n, t) == [n EXCEPT !.track = t]
Set_initial_state(n) == [n EXCEPT !.state = [init |-> TRUE, segs |-> <<>>]]
EvolveState(n) ==
    [n EXCEPT !.state.segs = Append(@, [body |-> n.body, track |-> n.track])]

\* A record of the calls log: the call, its argument, and the distance index
\* and layer index (0 outside the layer loop) it was issued for.
Call(op, arg, iL, layer) == [op |-> op, arg |-> arg, iL |-> iL, layer |-> layer]

Quiescent == pc \in {"idle", "done", "failed"}

\* An API call can be made: no call is running (the calculator is used from
\* one thread), and the call budget is not used up.
CanCall == Quiescent /\ n_calls < MaxCalls

\* ------------------------------------------------ oscillation parameters
\* Angles, phases and splittings are small integers standing for floats;
\* None is Python's None (an optional argument left out).
None == -1
Angles == 1..MaxAngle
Phases == 0..MaxPhase
Splittings == 1..MaxSplitting

\* d[k] = v on a dict
Put(d, k, v) == [x \in (DOMAIN d) \cup {k} |-> IF x = k THEN v ELSE d[x]]

\* [ t for t in xs if t is not None ]
NotNone(xs) == SelectSeq(xs, LAMBDA x : x # None)

\* The argument check of set_mixing_angles that looks at theta13 only.
MixingArgsOk_Theta13Only(nn, theta13, theta23) ==
    IF nn = 2 THEN theta13 = None ELSE theta13 # None

\* The asserts on entry of set_mixing_angles.
MixingArgsOk(nn, theta13, theta23) ==
    IF nn = 2
      THEN theta13 = None /\ theta23 = None
      ELSE theta13 # None /\ theta23 # None

\* The assert on entry of set_mass_splittings.
SplittingArgsOk(nn, deltam31) ==
    IF nn = 2 THEN deltam31 = None ELSE deltam31 # None

\* self.units.eV of nuSQuIDS (nsq.Const)
eV == 1

\* nuSQuIDS: Set_CPPhase, Set_MixingAngle, Set_SquareMassDifference and
\* Get_SquareMassDifference on the parameters the object holds.
Set_CPPhase(n, i, j, v) == [n EXCEPT !.cp = Put(@, <<i, j>>, v)]
Set_MixingAngle(n, i, j, v) == [n EXCEPT !.angle = Put(@, <<i, j>>, v)]
Set_SquareMassDifference(n, i, v) == [n EXCEPT !.dm2 = Put(@, i, v)]
Get_SquareMassDifference(n, i) == n.dm2[i]

\* set_mixing_angles, nusquids branch
NusqSetMixingAngles(n, nn, theta12, theta13, theta23, deltacp) ==
    LET n1 == Set_MixingAngle(Set_CPPhase(n, 0, 2, deltacp), 0, 1, theta12)
    IN  IF nn > 2
          THEN Set_MixingAngle(Set_MixingAngle(n1, 0, 2, theta13), 1, 2, theta23)
          ELSE n1

\* set_mass_splittings, nusquids branch
NusqSetMassSplittings(n, deltam21, deltam31) ==
    LET n1 == Set_SquareMassDifference(n, 1, deltam21 * eV * eV)
    IN  IF deltam31 # None
          THEN Set_SquareMassDifference(n1, 2, deltam31 * eV * eV)
          ELSE n1

\* get_mass_splittings, nusquids branch
NusqGetMassSplittings(n, nn) ==
    LET first == <<Get_SquareMassDifference(n, 1) \div (eV * eV)>>
    IN  IF nn > 2
          THEN Append(first, Get_SquareMassDifference(n, 2) \div (eV * eV))
          ELSE first

\* DensityMatrixOscSolver: set_mixing_angles keeps the array as theta_rad
\* and the phase as deltacp; set_mass_splittings keeps the array that
\* get_mass_splittings returns.
SolverSetMixingAngles(sv, theta, deltacp) ==
    [sv EXCEPT !.theta_rad = theta, !.deltacp = deltacp]
SolverSetMassSplittings(sv, dm2) == [sv EXCEPT !.mass_splittings = dm2]
SolverGetMassSplittings(sv) == sv.mass_splittings

\* set_mixing_angles and set_mass_splittings, prob3 branch: "Just store"
Prob3SetMixingAngles(d, theta12, theta13, theta23, deltacp) ==
    Put(Put(Put(Put(d, "theta12", theta12), "theta13", theta13),
            "theta23", theta23), "deltacp", deltacp)
Prob3SetMassSplittings(d, deltam21, deltam31) ==
    Put(Put(d, "deltam21", deltam21), "deltam31", deltam31)

\* The parameters the constructor is handed (mixing_angles_rad,
\* mass_splittings_eV2, deltacp_rad), one entry per angle / splitting.
InitAngles(nn) == IF nn = 3 THEN <<1, 1, 1>> ELSE <<1, None, None>>
InitSplittings(nn) == IF nn = 3 THEN <<1, 1>> ELSE <<1, None>>
InitDeltaCP == 0

\* The backend objects as _init_nusquids / _init_deimos / _init_prob3
\* create them, before any parameter is set.
NoNusqOsc == [angle |-> <<>>, cp |-> <<>>, dm2 |-> <<>>]
NoSolverOsc == [theta_rad |-> <<>>, deltacp |-> 0, mass_splittings |-> <<>>]

\* Python's None for a keyword dict, and an attribute that was never
\* created (only _init_deimos creates the three *_model_kw attributes).
NoKw == [kind |-> "None"]
Absent == [kind |-> "absent"]

\* What the nuSQuIDS object was told through its Set_Decoherence*,
\* Set_*Lightcone* and Set_LIVCoefficient methods (nothing, at first).
NoNusqBsm == [gamma |-> <<>>, gamma_n |-> None, gamma_E0 |-> None,
              use_lightcone |-> FALSE, lightcone |-> <<>>, liv |-> <<>>]

\* An SME coefficient array, by shape and by whether it is all zeros
\* (np.zeros(shape)): fill is the value of every entry.
NoTensor == [shape |-> <<>>, fill |-> None]
Tensor(shape, fill) == [shape |-> shape, fill |-> fill]
IsArray(t) == t # NoTensor

\* The state of the beyond-standard settings after __init__.
InitBsm ==
    /\ decoh_model_kw = IF tool = "deimos" THEN NoKw ELSE Absent
    /\ lightcone_model_kw = IF tool = "deimos" THEN NoKw ELSE Absent
    /\ sme_model_kw = IF tool = "deimos" THEN NoKw ELSE Absent
    /\ nusq_bsm = NoNusqBsm
    /\ calc_basis = IF tool = "deimos" THEN "nxn" ELSE "absent"
    /\ lookup = [op |-> "none"]

\* No calc_osc_prob call is running or has been made: no arguments, nothing
\* returned.
NoRequest == [distance_km |-> <<>>, coszen |-> <<>>,
              has_distance |-> FALSE, has_coszen |-> FALSE,
              single_energy |-> FALSE, energy_size |-> 0, single_dist |-> FALSE]
NoResult == [returned |-> FALSE]

\* ------------------------------------------------------------------ Init
\* The backends and the locals of calc_osc_prob after __init__, which sets
\* vacuum and then the oscillation parameters it was handed.
InitBackends ==
    /\ matter_settings = [matter |-> "vacuum"]
    /\ nusq = [body |-> Vacuum, track |-> NoTrack, state |-> NoState]
    /\ solver_V = "None"
    /\ prob3_settings = IF tool = "prob3" THEN [matter |-> "None"] ELSE <<>>
    /\ pc = "idle"
    /\ req = NoRequest
    /\ osc_probs = NoResult
    /\ i_L = 0
    /\ i_layer = 0
    /\ L_so_far = 0
    /\ results = <<>>
    /\ calls = <<>>
    /\ err = ""
    /\ last = [op |-> "__init__", status |-> "ok"]
    /\ n_calls = 0
    /\ matter_ok = TRUE
    /\ InitBsm
    /\ LET a == InitAngles(num_neutrinos)
           m == InitSplittings(num_neutrinos)
       IN  /\ nusq_osc = IF tool = "nusquids"
                            THEN NusqSetMassSplittings(
                                    NusqSetMixingAngles(NoNusqOsc, num_neutrinos,
                                                        a[1], a[2], a[3], InitDeltaCP),
                                    m[1], m[2])
                            ELSE NoNusqOsc
           /\ solver_osc = IF tool = "deimos"
                              THEN SolverSetMassSplittings(
                                      SolverSetMixingAngles(NoSolverOsc, NotNone(a),
                                                            InitDeltaCP),
                                      NotNone(m))
                              ELSE NoSolverOsc
           /\ prob3_osc = IF tool = "prob3"
                             THEN Prob3SetMassSplittings(
                                     Prob3SetMixingAngles(<<>>, a[1], a[2], a[3],
                                                          InitDeltaCP),
                                     m[1], m[2])
                             ELSE <<>>
           /\ supplied = [angles |-> NotNone(a), deltacp |-> InitDeltaCP,
                          splittings |-> NotNone(m)]

\* No check_decoherence_D_matrix call was made.
Unchecked == [raised |-> FALSE, check |-> "unchecked", message |-> ""]

\* State after OscCalculator.__init__.
Init ==
    /\ tool \in Tools
    /\ atmospheric \in BOOLEAN
    /\ num_neutrinos \in {2, 3}
    /\ flavors = SubSeq(FLAVORS, 1, num_neutrinos)
    /\ nusquids_variant = "None"
    /\ InitBackends
    /\ D_in = <<>>
    /\ verdict = Unchecked

\* ------------------------------------------------------------ set_matter
\* The locals of a finished calc_osc_prob call are gone once another call
\* is made.
ResetCalc ==
    /\ pc' = "idle"
    /\ req' = NoRequest
    /\ osc_probs' = NoResult
    /\ i_L' = 0
    /\ i_layer' = 0
    /\ L_so_far' = 0
    /\ results' = <<>>
    /\ calls' = <<>>
    /\ err' = ""
    /\ n_calls' = n_calls + 1
    /\ matter_ok' = (last'.status = "ok")

\* set_matter raised: the backend objects are as they were, but
\* self._matter_settings was already re-initialised on entry.
SetMatterRaises(m) ==
    /\ matter_settings' = [matter |-> m]
    /\ UNCHANGED <<nusq, solver_V, prob3_settings>>

\* set_matter("vacuum") and set_matter(None)
SetMatterVacuum ==
    /\ CanCall
    /\ \E m \in {"vacuum", "None"} :
        /\ matter_settings' = [matter |-> m]
        /\ nusq' = IF tool = "nusquids" THEN Set_Body(nusq, Vacuum) ELSE nusq
        /\ solver_V' = IF tool = "deimos" THEN "None" ELSE solver_V
        /\ prob3_settings' = IF tool = "prob3"
                               THEN [prob3_settings EXCEPT !.matter = "None"]
                               ELSE prob3_settings
        /\ last' = [op |-> "set_matter", status |-> "ok", kind |-> m]
    /\ ResetCalc
    /\ UNCHANGED <<config, oscvars, decohvars, bsmvars, lookup>>

\* set_matter("earth") that also switches the calculator to atmospheric
\* mode where the Earth model is accepted.
SetMatterEarth_SwitchesMode ==
    /\ CanCall
    /\ IF tool \in {"nusquids", "prob3"}
         THEN /\ matter_settings' = [matter |-> "earth"]
              /\ nusq' = IF tool = "nusquids"
                           THEN Set_EarthModel(nusq, EarthAtm) ELSE nusq
              /\ prob3_settings' = IF tool = "prob3"
                                     THEN [prob3_settings EXCEPT !.matter = "earth"]
                                     ELSE prob3_settings
              /\ atmospheric' = TRUE
              /\ UNCHANGED solver_V
              /\ last' = [op |-> "set_matter", status |-> "ok", kind |-> "earth"]
         ELSE /\ SetMatterRaises("earth")
              /\ UNCHANGED atmospheric
              /\ last' = [op |-> "set_matter", status |-> "error", kind |-> "earth"]
    /\ ResetCalc
    /\ UNCHANGED <<tool, num_neutrinos, flavors, nusquids_variant, oscvars,
                   decohvars, bsmvars, lookup>>

\* set_matter("earth")
SetMatterEarth ==
    /\ CanCall
    /\ IF tool = "nusquids" /\ atmospheric
         THEN /\ matter_settings' = [matter |-> "earth"]
              /\ nusq' = Set_EarthModel(nusq, EarthAtm)
              /\ UNCHANGED <<solver_V, prob3_settings>>
              /\ last' = [op |-> "set_matter", status |-> "ok", kind |-> "earth"]
         ELSE IF tool = "prob3"
         THEN /\ matter_settings' = [matter |-> "earth"]
              /\ prob3_settings' = [prob3_settings EXCEPT !.matter = "earth"]
              /\ UNCHANGED <<nusq, solver_V>>
              /\ last' = [op |-> "set_matter", status |-> "ok", kind |-> "earth"]
         ELSE /\ SetMatterRaises("earth")
              /\ last' = [op |-> "set_matter", status |-> "error", kind |-> "earth"]
    /\ ResetCalc
    /\ UNCHANGED <<config, oscvars, decohvars, bsmvars, lookup>>

\* What set_matter("constant", ...) stores in self._prob3_settings: the kind
\* and the density (the electron fraction is not stored).
Prob3StoreConstant(s, d) ==
    [k \in (DOMAIN s) \cup {"matter", "matter_density_g_per_cm3"} |->
        IF k = "matter" THEN "constant"
        ELSE IF k = "matter_density_g_per_cm3" THEN d
        ELSE s[k]]

\* get_matter_potential_flav(flavors, density, electron_fraction): the
\* potential is determined by the density and the electron fraction.
get_matter_potential_flav(d, e) == [density |-> d, efrac |-> e]

\* set_matter("constant", **kw)
SetMatterConstant ==
    /\ CanCall
    /\ \E keys \in SUBSET ConstantKeys, d \in Densities, e \in Efracs :
        IF keys # ConstantKeys
          THEN /\ SetMatterRaises("constant")
               /\ last' = [op |-> "set_matter", status |-> "error", kind |-> "constant"]
          ELSE /\ matter_settings' = [matter |-> "constant"]
               /\ nusq' = IF tool = "nusquids"
                            THEN Set_Body(nusq, ConstantDensity(d, e)) ELSE nusq
               /\ solver_V' = IF tool = "deimos"
                                THEN get_matter_potential_flav(d, e) ELSE solver_V
               /\ prob3_settings' = IF tool = "prob3"
                                      THEN Prob3StoreConstant(prob3_settings, d)
                                      ELSE prob3_settings
               /\ last' = [op |-> "set_matter", status |-> "ok", kind |-> "constant"]
    /\ ResetCalc
    /\ UNCHANGED <<config, oscvars, decohvars, bsmvars, lookup>>

\* set_matter("variable", **kw) that stores the profile whatever the tool.
SetMatterVariable_AnyTool ==
    /\ CanCall
    /\ \E keys_ok \in BOOLEAN :
        IF keys_ok
          THEN /\ matter_settings' = [matter |-> "variable"]
               /\ nusq' = IF tool = "nusquids"
                            THEN Set_Body(nusq, VariableDensity) ELSE nusq
               /\ solver_V' = IF tool = "deimos" THEN "variable" ELSE solver_V
               /\ prob3_settings' = IF tool = "prob3"
                                      THEN [prob3_settings EXCEPT !.matter = "variable"]
                                      ELSE prob3_settings
               /\ last' = [op |-> "set_matter", status |-> "ok", kind |-> "variable"]
          ELSE /\ SetMatterRaises("variable")
               /\ last' = [op |-> "set_matter", status |-> "error", kind |-> "variable"]
    /\ ResetCalc
    /\ UNCHANGED <<config, oscvars, decohvars, bsmvars, lookup>>

\* set_matter("variable", **kw); keys_ok: the three arrays are all given
SetMatterVariable ==
    /\ CanCall
    /\ \E keys_ok \in BOOLEAN :
        IF keys_ok /\ tool = "nusquids"
          THEN /\ matter_settings' = [matter |-> "variable"]
               /\ nusq' = Set_Body(nusq, VariableDensity)
               /\ UNCHANGED <<solver_V, prob3_settings>>
               /\ last' = [op |-> "set_matter", status |-> "ok", kind |-> "variable"]
          ELSE /\ SetMatterRaises("variable")
               /\ last' = [op |-> "set_matter", status |-> "error", kind |-> "variable"]
    /\ ResetCalc
    /\ UNCHANGED <<config, oscvars, decohvars, bsmvars, lookup>>

\* The format checks of set_matter("layers", ...): one value per layer, and
\* np.all(endpoint[:-1] <= endpoint[1:]).
SameSize(kw) ==
    /\ Len(kw.layer_endpoint_km) = Len(kw.electron_fraction)
    /\ Len(kw.layer_endpoint_km) = Len(kw.matter_density_g_per_cm3)

\* The endpoint check that leaves out the last pair.
Ascending_SkipsLastPair(s) == \A k \in 1..(Len(s) - 2) : s[k] <= s[k + 1]

Ascending(s) == \A k \in 1..(Len(s) - 1) : s[k] <= s[k + 1]

LayersAccepted(kw) == SameSize(kw) /\ Ascending(kw.layer_endpoint_km)

\* What set_matter("layers", ...) stores for the state evolution.
StoreLayers(kw) ==
    [matter |-> "layers",
     layer_endpoint_km |-> kw.layer_endpoint_km,
     matter_density_g_per_cm3 |-> kw.matter_density_g_per_cm3,
     electron_fraction |-> kw.electron_fraction]

\* set_matter("layers", **kw)
SetMatterLayers ==
    /\ CanCall
    /\ \E keys \in SUBSET LayerKeys :
        IF keys # LayerKeys
          THEN /\ SetMatterRaises("layers")
               /\ last' = [op |-> "set_matter", status |-> "error", kind |-> "layers"]
          ELSE \E ends \in SeqsUpTo(Endpoints, MaxLayers),
                  dens \in SeqsUpTo(Densities, MaxLayers),
                  efs \in SeqsUpTo(Efracs, MaxLayers) :
                LET kw == [layer_endpoint_km |-> ends,
                           matter_density_g_per_cm3 |-> dens,
                           electron_fraction |-> efs]
                IN  IF LayersAccepted(kw) /\ tool = "nusquids"
                      THEN /\ matter_settings' = StoreLayers(kw)
                           /\ UNCHANGED <<nusq, solver_V, prob3_settings>>
                           /\ last' = [op |-> "set_matter", status |-> "ok",
                                       kind |-> "layers"]
                      ELSE /\ SetMatterRaises("layers")
                           /\ last' = [op |-> "set_matter", status |-> "error",
                                       kind |-> "layers"]
    /\ ResetCalc
    /\ UNCHANGED <<config, oscvars, decohvars, bsmvars, lookup>>

\* set_matter(<anything else>)
SetMatterUnrecognised ==
    /\ CanCall
    /\ SetMatterRaises("bogus")
    /\ last' = [op |-> "set_matter", status |-> "error", kind |-> "bogus"]
    /\ ResetCalc
    /\ UNCHANGED <<config, oscvars, decohvars, bsmvars, lookup>>

set_matter ==
    \/ SetMatterVacuum
    \/ SetMatterEarth
    \/ SetMatterConstant
    \/ SetMatterVariable
    \/ SetMatterLayers
    \/ SetMatterUnrecognised

\* --------------------------------------------------------- calc_osc_prob
Coszens == {-1, 1}
GridsOver(S) == SeqsUpTo(S, MaxGrid) \ {<<>>}

Last(s) == s[Len(s)]

RECURSIVE Reverse(_)
Reverse(s) == IF s = <<>> THEN <<>> ELSE Append(Reverse(Tail(s)), Head(s))

\* calc_osc_prob raised: nothing is returned.
CalcRaises(cause) ==
    /\ pc' = "failed"
    /\ err' = cause
    /\ last' = [op |-> "calc_osc_prob", status |-> "error"]

\* The argument check that only asks for the argument of the mode.
ModeArgsOk_AllowsBoth(r) == IF atmospheric THEN r.has_coszen ELSE r.has_distance

\* The argument check of calc_osc_prob: coszen and not distance_km in
\* atmospheric mode, distance_km and not coszen otherwise.
ModeArgsOk(r) ==
    IF atmospheric
      THEN r.has_coszen /\ ~r.has_distance
      ELSE r.has_distance /\ ~r.has_coszen

\* energy_GeV as calc_osc_prob sees it: a number (single_energy, size 1) or
\* an array and its length.
EnergyArgs ==
    {[single |-> TRUE, size |-> 1]}
      \cup {[single |-> FALSE, size |-> k] : k \in 1..MaxEnergies}

\* distance_km / coszen given as a number is handled as an array of one
\* entry, with single_dist set; an array of any length leaves it unset.
ScalarOrArray(grid) == IF Len(grid) = 1 THEN BOOLEAN ELSE {FALSE}

\* Entry of calc_osc_prob, up to the call of the sub-function of the tool.
\* When the argument check raises, the grids have not been looked at.
CalcBegin ==
    /\ CanCall
    /\ n_calls' = n_calls + 1
    /\ \E hd \in BOOLEAN, hc \in BOOLEAN, en \in EnergyArgs :
        LET given == [NoRequest EXCEPT !.has_distance = hd, !.has_coszen = hc,
                                       !.single_energy = en.single,
                                       !.energy_size = en.size]
        IN  IF ~ModeArgsOk(given)
              THEN /\ CalcRaises("mode")
                   /\ req' = given
                   /\ i_L' = 0
              ELSE \E grid \in GridsOver(IF atmospheric THEN Coszens ELSE Dists) :
                   \E sd \in ScalarOrArray(grid) :
                     /\ req' = [given EXCEPT
                                  !.distance_km = IF atmospheric THEN <<>> ELSE grid,
                                  !.coszen = IF atmospheric THEN grid ELSE <<>>,
                                  !.single_dist = sd]
                     /\ pc' = IF tool = "nusquids"
                                THEN (IF atmospheric THEN "nusq_atm" ELSE "dist_loop")
                                ELSE tool
                     /\ i_L' = IF tool = "nusquids" /\ ~atmospheric THEN 1 ELSE 0
                     /\ err' = ""
                     /\ last' = [op |-> "calc_osc_prob", status |-> "running"]
    /\ i_layer' = 0
    /\ L_so_far' = 0
    /\ results' = <<>>
    /\ calls' = <<>>
    /\ osc_probs' = NoResult
    /\ UNCHANGED <<config, oscvars, decohvars, bsmvars, lookup, matter_ok,
                   matter_settings, nusq, solver_V, prob3_settings>>

\* _calc_osc_prob_nusquids, atmospheric case: one evolution of the whole
\* coszen/energy node grid, then one evaluation per requested coszen.
NusqAtmospheric ==
    /\ pc = "nusq_atm"
    /\ LET n1 == EvolveState(Set_initial_state(nusq))
       IN  /\ nusq' = n1
           /\ calls' = calls \o <<Call("Set_initial_state", "", 0, 0),
                                  Call("EvolveState", "", 0, 0)>>
                             \o [k \in 1..Len(req.coszen) |->
                                    Call("EvalFlavor", req.coszen[k], k, 0)]
           /\ results' = [k \in 1..Len(req.coszen) |->
                            [state |-> n1.state, coszen |-> req.coszen[k]]]
    /\ pc' = "return"
    /\ UNCHANGED <<config, oscvars, decohvars, bsmvars, lookup, matter_ok,
                   osc_probs,
                   matter_settings, solver_V, prob3_settings, req, i_L,
                   i_layer, L_so_far, err, last, n_calls>>

\* Head of the loop over distance nodes.
NextDistance ==
    /\ pc = "dist_loop"
    /\ pc' = IF i_L > Len(req.distance_km) THEN "return" ELSE "propagate"
    /\ UNCHANGED <<config, oscvars, decohvars, bsmvars, lookup, matter_ok,
                   osc_probs,
                   matter_settings, nusq, solver_V, prob3_settings, req,
                   i_L, i_layer, L_so_far, results, calls, err, last, n_calls>>

\* Track, initial state and evolution of one distance in one medium.
\* The whole-path propagation that also puts the body back to vacuum.
PropagateWhole_ResetsBody(n, trackKind, L) ==
    Set_Body(EvolveState(Set_initial_state(Set_Track(n, Track(trackKind, L)))),
             Vacuum)

PropagateWhole(n, trackKind, L) ==
    EvolveState(Set_initial_state(Set_Track(n, Track(trackKind, L))))

LogWhole(trackKind, L, iL) ==
    <<Call("Set_Track", Track(trackKind, L), iL, 0),
      Call("Set_initial_state", "", iL, 0),
      Call("EvolveState", "", iL, 0)>>

PropagateVacuum ==
    /\ pc = "propagate"
    /\ matter_settings.matter = "vacuum"
    /\ nusq' = PropagateWhole(nusq, "Vacuum", req.distance_km[i_L])
    /\ calls' = calls \o LogWhole("Vacuum", req.distance_km[i_L], i_L)
    /\ pc' = "eval"
    /\ UNCHANGED <<config, oscvars, decohvars, bsmvars, lookup, matter_ok,
                   osc_probs,
                   matter_settings, solver_V, prob3_settings, req, i_L,
                   i_layer, L_so_far, results, err, last, n_calls>>

PropagateConstant ==
    /\ pc = "propagate"
    /\ matter_settings.matter = "constant"
    /\ nusq' = PropagateWhole(nusq, "ConstantDensity", req.distance_km[i_L])
    /\ calls' = calls \o LogWhole("ConstantDensity", req.distance_km[i_L], i_L)
    /\ pc' = "eval"
    /\ UNCHANGED <<config, oscvars, decohvars, bsmvars, lookup, matter_ok,
                   osc_probs,
                   matter_settings, solver_V, prob3_settings, req, i_L,
                   i_layer, L_so_far, results, err, last, n_calls>>

\* The coverage check with a strict comparison.
LayersCheck_Strict(ms, L) ==
    IF "layer_endpoint_km" \notin DOMAIN ms THEN "KeyError"
    ELSE IF Len(ms.layer_endpoint_km) = 0 THEN "IndexError"
    ELSE IF ~(Last(ms.layer_endpoint_km) > L) THEN "coverage"
    ELSE ""

\* Why the coverage check of the layers branch raises, "" if it passes:
\* the dict has no layer arrays, the array is empty, or the last endpoint
\* is short of L.
LayersCheck(ms, L) ==
    IF "layer_endpoint_km" \notin DOMAIN ms THEN "KeyError"
    ELSE IF Len(ms.layer_endpoint_km) = 0 THEN "IndexError"
    ELSE IF ~(Last(ms.layer_endpoint_km) >= L) THEN "coverage"
    ELSE ""

\* Entry of the layers branch: the coverage check, then L_so_far = 0.
EnterLayers ==
    /\ pc = "propagate"
    /\ matter_settings.matter = "layers"
    /\ LET cause == LayersCheck(matter_settings, req.distance_km[i_L])
       IN  IF cause # ""
             THEN /\ CalcRaises(cause)
                  /\ UNCHANGED <<i_layer, L_so_far>>
             ELSE /\ pc' = "layer_loop"
                  /\ i_layer' = 1
                  /\ L_so_far' = 0
                  /\ UNCHANGED <<err, last>>
    /\ UNCHANGED <<config, oscvars, decohvars, bsmvars, lookup, matter_ok,
                   osc_probs,
                   matter_settings, nusq, solver_V, prob3_settings, req,
                   i_L, results, calls, n_calls>>

\* Any other recorded matter: raise Exception("Unknown matter").
PropagateUnknown ==
    /\ pc = "propagate"
    /\ matter_settings.matter \notin {"vacuum", "constant", "layers"}
    /\ CalcRaises("unknown_matter")
    /\ UNCHANGED <<config, oscvars, decohvars, bsmvars, lookup, matter_ok,
                   osc_probs,
                   matter_settings, nusq, solver_V, prob3_settings, req,
                   i_L, i_layer, L_so_far, results, calls, n_calls>>

\* ------------------------------------------------------------ layer loop
\* "Bail out if have reached travel distance"
LayerBreak(Lsf, endpoint) == Lsf > endpoint

\* The layer length that is not cut off at the requested distance.
LayerLength_Unclipped(L, endpoint, Lsf) == endpoint - Lsf

\* "Figure out how far we will travel in this layer"
LayerLength(L, endpoint, Lsf) == (IF L < endpoint THEN L ELSE endpoint) - Lsf

\* The initial state supplied on every step but the first.
SuppliesInitialState_Inverted(Lsf) == Lsf # 0

\* "Only first step"
SuppliesInitialState(Lsf) == Lsf = 0

\* The layer step that does not set the body.
PropagateLayer_KeepsBody(n, density, efrac, L_layer, first) ==
    LET n2 == Set_Track(n, Track("ConstantDensity", L_layer))
        n3 == IF first THEN Set_initial_state(n2) ELSE n2
    IN  EvolveState(n3)

\* Body, track, (initial state,) evolution of one layer.
PropagateLayer(n, density, efrac, L_layer, first) ==
    LET n1 == Set_Body(n, ConstantDensity(density, efrac))
        n2 == Set_Track(n1, Track("ConstantDensity", L_layer))
        n3 == IF first THEN Set_initial_state(n2) ELSE n2
    IN  EvolveState(n3)

LogLayer(density, efrac, L_layer, first, iL, layer) ==
    <<Call("Set_Body", ConstantDensity(density, efrac), iL, layer),
      Call("Set_Track", Track("ConstantDensity", L_layer), iL, layer)>>
    \o (IF first THEN <<Call("Set_initial_state", "", iL, layer)>> ELSE <<>>)
    \o <<Call("EvolveState", "", iL, layer)>>

\* Number of iterations zip(...) offers over the three stored arrays.
ZipLen(ms) ==
    LET a == Len(ms.layer_endpoint_km)
        b == Len(ms.matter_density_g_per_cm3)
        c == Len(ms.electron_fraction)
        ab == IF a < b THEN a ELSE b
    IN  IF ab < c THEN ab ELSE c

\* One iteration of the loop through the layers (or its end).
LayerStep ==
    /\ pc = "layer_loop"
    /\ LET L == req.distance_km[i_L]
           ms == matter_settings
       IN  IF i_layer > ZipLen(ms) \/ LayerBreak(L_so_far, ms.layer_endpoint_km[i_layer])
             THEN /\ pc' = "eval"
                  /\ UNCHANGED <<nusq, calls, L_so_far, i_layer>>
             ELSE LET L_layer == LayerLength(L, ms.layer_endpoint_km[i_layer], L_so_far)
                      first == SuppliesInitialState(L_so_far)
                      density == ms.matter_density_g_per_cm3[i_layer]
                      efrac == ms.electron_fraction[i_layer]
                  IN  /\ nusq' = PropagateLayer(nusq, density, efrac, L_layer, first)
                      /\ calls' = calls \o LogLayer(density, efrac, L_layer, first,
                                                    i_L, i_layer)
                      /\ L_so_far' = L_so_far + L_layer
                      /\ i_layer' = i_layer + 1
                      /\ pc' = "layer_loop"
    /\ UNCHANGED <<config, oscvars, decohvars, bsmvars, lookup, matter_ok,
                   osc_probs,
                   matter_settings, solver_V, prob3_settings, req, i_L,
                   results, err, last, n_calls>>

\* "Evaluate final state": EvalFlavor for every energy and final flavor.
EvalFinalState ==
    /\ pc = "eval"
    /\ results' = Append(results, [state |-> nusq.state, L |-> req.distance_km[i_L]])
    /\ calls' = Append(calls, Call("EvalFlavor", "", i_L, 0))
    /\ i_L' = i_L + 1
    /\ pc' = "dist_loop"
    /\ UNCHANGED <<config, oscvars, decohvars, bsmvars, lookup, matter_ok,
                   osc_probs,
                   matter_settings, nusq, solver_V, prob3_settings, req,
                   i_layer, L_so_far, err, last, n_calls>>

\* ------------------------------------------------------- deimos and prob3
\* calc_path_length_from_coszen: the path is longest for up-going (-1) and
\* shortest for down-going (+1) neutrinos.
calc_path_length_from_coszen(cz) == 2 - cz

\* DensityMatrixOscSolver.calc_osc_probs: one entry per distance of the grid
\* it is handed, in the order of that grid.
SolverCalcOscProbs(grid, V) == [k \in 1..Len(grid) |-> [L |-> grid[k], V |-> V]]

\* _calc_osc_prob_deimos that hands back the solver's result as it is.
CalcDeimos_NoFlipBack ==
    /\ pc = "deimos"
    /\ LET distance == IF atmospheric
                         THEN [k \in 1..Len(req.coszen) |->
                                  calc_path_length_from_coszen(req.coszen[k])]
                         ELSE req.distance_km
           flip == Last(distance) < distance[1]
           grid == IF flip THEN Reverse(distance) ELSE distance
           solved == SolverCalcOscProbs(grid, solver_V)
       IN  /\ calls' = <<Call("calc_osc_probs", grid, 0, 0)>>
           /\ results' = solved
    /\ pc' = "return"
    /\ UNCHANGED <<config, oscvars, decohvars, bsmvars, lookup, matter_ok,
                   osc_probs,
                   matter_settings, nusq, solver_V, prob3_settings, req,
                   i_L, i_layer, L_so_far, err, last, n_calls>>

\* _calc_osc_prob_deimos
CalcDeimos ==
    /\ pc = "deimos"
    /\ LET distance == IF atmospheric
                         THEN [k \in 1..Len(req.coszen) |->
                                  calc_path_length_from_coszen(req.coszen[k])]
                         ELSE req.distance_km
           flip == Last(distance) < distance[1]
           grid == IF flip THEN Reverse(distance) ELSE distance
           solved == SolverCalcOscProbs(grid, solver_V)
       IN  /\ calls' = <<Call("calc_osc_probs", grid, 0, 0)>>
           /\ results' = IF flip THEN Reverse(solved) ELSE solved
    /\ pc' = "return"
    /\ UNCHANGED <<config, oscvars, decohvars, bsmvars, lookup, matter_ok,
                   osc_probs,
                   matter_settings, nusq, solver_V, prob3_settings, req,
                   i_L, i_layer, L_so_far, err, last, n_calls>>

\* Why _calc_osc_prob_prob3 raises, "" if it does not: it supports 3 flavors
\* only, has no Earth propagation, and indexes distance_km (None in
\* atmospheric mode).
Prob3Check(s) ==
    IF num_neutrinos # 3 THEN "num_neutrinos"
    ELSE IF s.matter = "earth" THEN "not_implemented"
    ELSE IF atmospheric THEN "IndexError"
    ELSE ""

\* _calc_osc_prob_prob3
CalcProb3 ==
    /\ pc = "prob3"
    /\ LET cause == Prob3Check(prob3_settings)
       IN  IF cause # ""
             THEN /\ CalcRaises(cause)
                  /\ calls' = IF cause = "num_neutrinos" THEN <<>>
                              ELSE <<Call("SetMNS", "", 0, 0)>>
                  /\ UNCHANGED results
             ELSE /\ calls' = <<Call("SetMNS", "", 0, 0)>>
                  /\ results' = [k \in 1..Len(req.distance_km) |->
                        IF prob3_settings.matter = "None"
                          THEN [L |-> req.distance_km[k], matter |-> "None"]
                          ELSE [L |-> req.distance_km[k], matter |-> "constant",
                                density |-> prob3_settings.matter_density_g_per_cm3]]
                  /\ pc' = "return"
                  /\ UNCHANGED <<err, last>>
    /\ UNCHANGED <<config, oscvars, decohvars, bsmvars, lookup, matter_ok,
                   osc_probs,
                   matter_settings, nusq, solver_V, prob3_settings, req,
                   i_L, i_layer, L_so_far, n_calls>>

\* ------------------------------------------------------------- the return
\* dist_size of calc_osc_prob
DistSize(r) == IF atmospheric THEN Len(r.coszen) ELSE Len(r.distance_km)

\* The array a sub-function hands back: one row per energy, one column per
\* distance it evaluated, one entry per flavor.
BackendShape(r, res) == <<r.energy_size, Len(res), num_neutrinos>>

\* expected_shape of calc_osc_prob
ExpectedShape(r) == <<r.energy_size, DistSize(r), num_neutrinos>>

\* np.squeeze: every axis of length 1 is removed.
Squeeze_AllSingletons(shape, r) ==
    SelectSeq(shape, LAMBDA n : n # 1)

\* The indexing that removes the axes of scalar arguments.
Squeeze(shape, r) ==
    IF r.single_energy /\ r.single_dist THEN <<shape[3]>>
    ELSE IF r.single_energy THEN <<shape[2], shape[3]>>
    ELSE IF r.single_dist THEN <<shape[1], shape[3]>>
    ELSE shape

\* What the numbers a backend computed are like: probabilities that sum to
\* one over the final flavors, finite numbers that do not, or some entry
\* that is not finite.
BackendContents == {"unitary", "non_unitary", "non_finite"}

\* np.all(np.isfinite(osc_probs))
IsFinite(content) == content # "non_finite"

\* "Check shape of output array", the indexing, the finiteness check, then
\* return.
CalcReturn ==
    /\ pc = "return"
    /\ \E content \in BackendContents :
        IF BackendShape(req, results) # ExpectedShape(req)
          THEN /\ CalcRaises("shape")
               /\ UNCHANGED osc_probs
          ELSE IF ~IsFinite(content)
            THEN /\ CalcRaises("non_finite")
                 /\ UNCHANGED osc_probs
            ELSE /\ pc' = "done"
                 /\ last' = [op |-> "calc_osc_prob", status |-> "ok"]
                 /\ osc_probs' = [returned |-> TRUE,
                                  shape |-> Squeeze(ExpectedShape(req), req),
                                  content |-> content]
                 /\ UNCHANGED err
    /\ UNCHANGED <<config, oscvars, decohvars, bsmvars, lookup, matter_ok,
                   matter_settings, nusq, solver_V, prob3_settings, req,
                   i_L, i_layer, L_so_far, results, calls, n_calls>>

calc_osc_prob ==
    \/ CalcBegin
    \/ NusqAtmospheric
    \/ NextDistance
    \/ PropagateVacuum
    \/ PropagateConstant
    \/ EnterLayers
    \/ PropagateUnknown
    \/ LayerStep
    \/ EvalFinalState
    \/ CalcDeimos
    \/ CalcProb3
    \/ CalcReturn

Next == set_matter \/ calc_osc_prob

Spec == Init /\ [][Next]_vars

\* ------------------------------------------- parameter setters and getters
mattervars == <<matter_settings, nusq, solver_V, prob3_settings, pc, req, i_L,
                i_layer, L_so_far, results, calls, err, n_calls, matter_ok,
                osc_probs>>

\* Names of the arguments of a setter call that were given (are not None).
GivenNames(names, values) == {names[k] : k \in {j \in DOMAIN names : values[j] # None}}

\* set_mixing_angles(theta12, theta13=None, theta23=None, deltacp=0.)
set_mixing_angles ==
    /\ Quiescent
    /\ \E theta12 \in Angles, theta13 \in Angles \cup {None},
          theta23 \in Angles \cup {None}, deltacp \in Phases :
        LET given == GivenNames(<<"theta12", "theta13", "theta23", "deltacp">>,
                                <<theta12, theta13, theta23, deltacp>>)
        IN  IF ~MixingArgsOk(num_neutrinos, theta13, theta23)
              THEN /\ last' = [op |-> "set_mixing_angles", status |-> "error",
                               given |-> given]
                   /\ UNCHANGED oscvars
              ELSE /\ nusq_osc' = IF tool = "nusquids"
                                    THEN NusqSetMixingAngles(nusq_osc, num_neutrinos,
                                             theta12, theta13, theta23, deltacp)
                                    ELSE nusq_osc
                   /\ solver_osc' = IF tool = "deimos"
                                      THEN SolverSetMixingAngles(solver_osc,
                                               NotNone(<<theta12, theta13, theta23>>),
                                               deltacp)
                                      ELSE solver_osc
                   /\ prob3_osc' = IF tool = "prob3"
                                     THEN Prob3SetMixingAngles(prob3_osc, theta12,
                                              theta13, theta23, deltacp)
                                     ELSE prob3_osc
                   /\ supplied' = [supplied EXCEPT
                                     !.angles = NotNone(<<theta12, theta13, theta23>>),
                                     !.deltacp = deltacp]
                   /\ last' = [op |-> "set_mixing_angles", status |-> "ok",
                               given |-> given]
    /\ UNCHANGED <<config, mattervars, decohvars, bsmvars, lookup>>

\* set_deltacp(deltacp)
set_deltacp ==
    /\ Quiescent
    /\ \E deltacp \in Phases :
        IF tool = "deimos"
          THEN /\ last' = [op |-> "set_deltacp", status |-> "error",
                           given |-> {"deltacp"}]
               /\ UNCHANGED oscvars
          ELSE /\ nusq_osc' = IF tool = "nusquids"
                                THEN Set_CPPhase(nusq_osc, 0, 2, deltacp)
                                ELSE nusq_osc
               /\ prob3_osc' = IF tool = "prob3"
                                 THEN Put(prob3_osc, "deltacp", deltacp)
                                 ELSE prob3_osc
               /\ supplied' = [supplied EXCEPT !.deltacp = deltacp]
               /\ last' = [op |-> "set_deltacp", status |-> "ok",
                           given |-> {"deltacp"}]
               /\ UNCHANGED solver_osc
    /\ UNCHANGED <<config, mattervars, decohvars, bsmvars, lookup>>

\* set_mass_splittings(deltam21, deltam31=None)
set_mass_splittings ==
    /\ Quiescent
    /\ \E deltam21 \in Splittings, deltam31 \in Splittings \cup {None} :
        LET given == GivenNames(<<"deltam21", "deltam31">>, <<deltam21, deltam31>>)
        IN  IF ~SplittingArgsOk(num_neutrinos, deltam31)
              THEN /\ last' = [op |-> "set_mass_splittings", status |-> "error",
                               given |-> given]
                   /\ UNCHANGED oscvars
              ELSE /\ nusq_osc' = IF tool = "nusquids"
                                    THEN NusqSetMassSplittings(nusq_osc, deltam21,
                                                               deltam31)
                                    ELSE nusq_osc
                   /\ solver_osc' = IF tool = "deimos"
                                      THEN SolverSetMassSplittings(solver_osc,
                                               NotNone(<<deltam21, deltam31>>))
                                      ELSE solver_osc
                   /\ prob3_osc' = IF tool = "prob3"
                                     THEN Prob3SetMassSplittings(prob3_osc, deltam21,
                                                                 deltam31)
                                     ELSE prob3_osc
                   /\ supplied' = [supplied EXCEPT
                                     !.splittings = NotNone(<<deltam21, deltam31>>)]
                   /\ last' = [op |-> "set_mass_splittings", status |-> "ok",
                               given |-> given]
    /\ UNCHANGED <<config, mattervars, decohvars, bsmvars, lookup>>

\* get_mixing_angles(): the solver's array on deimos, the three stored
\* angles on prob3 (3 flavors only), "TODO" on nusquids.
get_mixing_angles ==
    /\ Quiescent
    /\ last' = IF tool = "deimos"
                 THEN [op |-> "get_mixing_angles", status |-> "ok",
                       value |-> solver_osc.theta_rad]
               ELSE IF tool = "prob3" /\ num_neutrinos = 3
                 THEN [op |-> "get_mixing_angles", status |-> "ok",
                       value |-> <<prob3_osc["theta12"], prob3_osc["theta13"],
                                   prob3_osc["theta23"]>>]
               ELSE [op |-> "get_mixing_angles", status |-> "error"]
    /\ UNCHANGED <<config, mattervars, decohvars, oscvars, bsmvars, lookup>>

\* get_deltacp()
get_deltacp ==
    /\ Quiescent
    /\ last' = IF tool = "deimos"
                 THEN [op |-> "get_deltacp", status |-> "ok",
                       value |-> solver_osc.deltacp]
               ELSE IF tool = "prob3"
                 THEN [op |-> "get_deltacp", status |-> "ok",
                       value |-> prob3_osc["deltacp"]]
               ELSE [op |-> "get_deltacp", status |-> "error"]
    /\ UNCHANGED <<config, mattervars, decohvars, oscvars, bsmvars, lookup>>

\* get_mass_splittings()
get_mass_splittings ==
    /\ Quiescent
    /\ last' = [op |-> "get_mass_splittings", status |-> "ok",
                value |-> IF tool = "nusquids"
                            THEN NusqGetMassSplittings(nusq_osc, num_neutrinos)
                          ELSE IF tool = "deimos"
                            THEN SolverGetMassSplittings(solver_osc)
                          ELSE <<prob3_osc["deltam21"], prob3_osc["deltam31"]>>]
    /\ UNCHANGED <<config, mattervars, decohvars, oscvars, bsmvars, lookup>>

ParamNext ==
    \/ set_mixing_angles
    \/ set_deltacp
    \/ set_mass_splittings
    \/ get_mixing_angles
    \/ get_deltacp
    \/ get_mass_splittings

\* A calculator whose oscillation parameters are set and read back.
ParamSpec == Init /\ [][ParamNext]_vars

\* ------------------------------------------- check_decoherence_D_matrix
\* A D matrix is a function on index pairs; entries are integers standing
\* for real floats (so the check of the imaginary parts passes).  The
\* inequalities are evaluated exactly, on inputs where the floating-point
\* evaluation of the code gives the same outcome (RoundingFree).
Idx(nn) == 0..(nn * nn - 1)
Zeros(nn) == [p \in Idx(nn) \X Idx(nn) |-> 0]
Diag(nn, g) == [p \in Idx(nn) \X Idx(nn) |->
                   IF p[1] = p[2] /\ p[1] > 0 THEN g[p[1]] ELSE 0]
Ones(nn) == Diag(nn, [k \in 1..(nn * nn - 1) |-> 1])
Override(D, i, j, v) == [D EXCEPT ![<<i, j>>] = v]

\* D.shape == (9, 9)
ShapeOk(D) == DOMAIN D = Idx(3) \X Idx(3)

\* np.all( D >= 0. )
AllNonNegative(D) == \A p \in DOMAIN D : D[p] >= 0

\* "Enforce pairs either side of the diagonal match": b12 ... b78
PairsMatch(D) == \A i \in 1..8, j \in 1..8 : i < j => D[<<j, i>>] = D[<<i, j>>]

\* P + Q * sqrt(3) >= 0, for integers P and Q
NonNegSurd(P, Q) ==
    IF P >= 0 /\ Q >= 0 THEN TRUE
    ELSE IF P <= 0 /\ Q <= 0 THEN FALSE
    ELSE IF P > 0 THEN P * P >= 3 * Q * Q
    ELSE 3 * Q * Q >= P * P

\* The inequalities in the order they are asserted. a1..a8 are multiplied
\* by 3 and the quadratic ones by 9, which keeps both sides whole numbers
\* next to the multiples of sqrt(3).
Inequalities == <<"a1", "a2", "a3", "a4", "a5", "a6", "a7", "a8",
                  "q12", "q13", "q23", "q38">>

InequalityHolds(D) ==
    LET g1 == D[<<1, 1>>]
        g2 == D[<<2, 2>>]
        g3 == D[<<3, 3>>]
        g4 == D[<<4, 4>>]
        g5 == D[<<5, 5>>]
        g6 == D[<<6, 6>>]
        g7 == D[<<7, 7>>]
        g8 == D[<<8, 8>>]
        b12 == D[<<1, 2>>]
        b13 == D[<<1, 3>>]
        b23 == D[<<2, 3>>]
        b38 == D[<<3, 8>>]
        A3 == 3 * (g1 + g2 - g3) - g8
        A8 == 2 * (g4 + g5 + g6 + g7) - (g1 + g2 + g3) - 3 * g8
        s == g4 + g5 - g6 - g7
    IN  [a1 |-> 3 * (g2 + g3 - g1) - g8 >= 0,
         a2 |-> 3 * (g1 - g2 + g3) - g8 >= 0,
         a3 |-> A3 >= 0,
         a4 |-> NonNegSurd(3 * (g5 + g3 - g4) + 2 * g8, -2 * b38),
         a5 |-> NonNegSurd(3 * (g4 - g5 + g3) + 2 * g8, -2 * b38),
         a6 |-> NonNegSurd(3 * (g7 + g3 - g6) + 2 * g8, 2 * b38),
         a7 |-> NonNegSurd(3 * (g6 - g7 + g3) + 2 * g8, 2 * b38),
         a8 |-> A8 >= 0,
         q12 |-> 36 * b12 * b12
                    <= (3 * g3 - g8) * (3 * g3 - g8) - 9 * (g1 - g2) * (g1 - g2),
         q13 |-> 36 * b13 * b13
                    <= (3 * g2 - g8) * (3 * g2 - g8) - 9 * (g1 - g3) * (g1 - g3),
         q23 |-> 36 * b23 * b23
                    <= (3 * g1 - g8) * (3 * g1 - g8) - 9 * (g2 - g3) * (g2 - g3),
         q38 |-> NonNegSurd(A3 * A8 - 144 * b38 * b38 * b38 * b38 - 3 * s * s,
                            -24 * b38 * b38 * s)]

\* The message of each assert (the quadratic ones have none).
InequalityMessage ==
    [a1 |-> "Inequality failure (a1)", a2 |-> "Inequality failure (a2)",
     a3 |-> "Inequality failure (a3)", a4 |-> "Inequality failure (a4)",
     a5 |-> "Inequality failure (a5)", a6 |-> "Inequality failure (a1)",
     a7 |-> "Inequality failure (a7)", a8 |-> "Inequality failure (a8)",
     q12 |-> "", q13 |-> "", q23 |-> "", q38 |-> ""]

AssertionError(check, message) ==
    [raised |-> TRUE, check |-> check, message |-> message]
Returned == [raised |-> FALSE, check |-> "", message |-> ""]

\* check_decoherence_D_matrix(D): the assert that fails first, if any.
\* With 2 flavors nothing is checked ("not yet implemented").
CheckDMatrix(nn, D) ==
    IF nn # 3 THEN Returned
    ELSE IF ~ShapeOk(D) THEN AssertionError("shape", "")
    ELSE IF ~AllNonNegative(D) THEN AssertionError("non_negative", "")
    ELSE IF ~PairsMatch(D) THEN AssertionError("pairs_match", "")
    ELSE LET holds == InequalityHolds(D)
             failing == {k \in DOMAIN Inequalities : ~holds[Inequalities[k]]}
         IN  IF failing = {} THEN Returned
             ELSE LET first == CHOOSE k \in failing : \A l \in failing : k <= l
                  IN  AssertionError(Inequalities[first],
                                     InequalityMessage[Inequalities[first]])

\* The matrices handed to the validator: diagonal ones, the all-zeros and the
\* all-ones-diagonal matrix with one entry (or one pair of entries either
\* side of the diagonal) replaced, and, for 3 flavors, one of the wrong shape.
DiagonalInputs(nn) ==
    {Diag(nn, g) : g \in [1..(nn * nn - 1) -> 0..MaxGamma]}
ReplacedInputs(nn) ==
    {Override(B, i, j, v) :
        B \in {Zeros(nn), Ones(nn)}, i \in Idx(nn), j \in Idx(nn),
        v \in {-1} \cup 1..MaxBeta}
PairInputs(nn) ==
    {Override(Override(Ones(nn), i, j, v), j, i, v) :
        i \in Idx(nn), j \in Idx(nn), v \in 1..MaxBeta}

\* The floats of the code decide a 9x9 matrix as exact arithmetic does: a8
\* and the last quadratic inequality are not at equality, unless the terms
\* they sum (thirds, multiples of 1/sqrt(3)) are exact in floating point.
RoundingFree(D) ==
    LET g == [k \in 1..8 |-> D[<<k, k>>]]
        b38 == D[<<3, 8>>]
        A3 == 3 * (g[1] + g[2] - g[3]) - g[8]
        A8 == 2 * (g[4] + g[5] + g[6] + g[7]) - (g[1] + g[2] + g[3]) - 3 * g[8]
        s == g[4] + g[5] - g[6] - g[7]
    IN  /\ A8 # 0 \/ \A k \in 1..7 : g[k] % 3 = 0
        /\ \/ A3 * A8 - 144 * b38 * b38 * b38 * b38 - 3 * s * s # 0
           \/ b38 * b38 * s # 0
           \/ \A k \in 4..7 : g[k] = 0

DInputs(nn) ==
    IF nn = 3
      THEN {D \in DiagonalInputs(3) \cup ReplacedInputs(3) \cup PairInputs(3) :
               RoundingFree(D)} \cup {Zeros(2)}
      ELSE DiagonalInputs(2) \cup ReplacedInputs(2) \cup PairInputs(2)

check_decoherence_D_matrix ==
    /\ Quiescent
    /\ verdict = Unchecked
    /\ verdict' = CheckDMatrix(num_neutrinos, D_in)
    /\ UNCHANGED <<config, mattervars, oscvars, bsmvars, lookup, last, D_in>>

\* A deimos calculator and a matrix about to be validated.
DecohInit ==
    /\ tool = "deimos"
    /\ atmospheric = FALSE
    /\ num_neutrinos \in {2, 3}
    /\ flavors = SubSeq(FLAVORS, 1, num_neutrinos)
    /\ nusquids_variant = "None"
    /\ InitBackends
    /\ D_in \in DInputs(num_neutrinos)
    /\ verdict = Unchecked

DecohNext == check_decoherence_D_matrix

DecohSpec == DecohInit /\ [][DecohNext]_vars

\* ------------------------------------- decoherence, lightcone, SME setters
\* The calls nuSQuIDS receives from set_decoherence_D_matrix.
NusqSetDecoherence(nb, D, n, E0) ==
    [nb EXCEPT !.gamma = D, !.gamma_n = n, !.gamma_E0 = E0]

\* The dict set_decoherence_D_matrix stores on deimos.
DecohKw(D, n, E0) ==
    [kind |-> "dict", D_matrix0_eV |-> D, n |-> n, E0_eV |-> E0,
     D_matrix_basis |-> "sun"]

\* Why set_decoherence_D_matrix(D, n, E0) raises, "" if it does not: the
\* validator first, then the variant of the nuSQuIDS object.
DecohRaises(D) ==
    IF CheckDMatrix(num_neutrinos, D).raised THEN "validation"
    ELSE IF tool = "nusquids" /\ nusquids_variant # "nuSQUIDSDecoh" THEN "variant"
    ELSE ""

\* set_decoherence_D_matrix that hands the values on before it validates.
StoreDecoherence_BeforeCheck(D, n, E0, op) ==
    /\ last' = [op |-> op, status |-> IF DecohRaises(D) = "" THEN "ok" ELSE "error",
                cause |-> DecohRaises(D)]
    /\ IF DecohRaises(D) = "variant"
         THEN UNCHANGED <<nusq_bsm, decoh_model_kw>>
         ELSE /\ nusq_bsm' = IF tool = "nusquids"
                               THEN NusqSetDecoherence(nusq_bsm, D, n, E0)
                               ELSE nusq_bsm
              /\ decoh_model_kw' = IF tool = "deimos" THEN DecohKw(D, n, E0)
                                   ELSE decoh_model_kw

\* Body of set_decoherence_D_matrix(D_matrix_eV, n, E0_eV), called as op.
\* Nothing is stored on prob3, and the call returns.
StoreDecoherence(D, n, E0, op) ==
    /\ last' = [op |-> op, status |-> IF DecohRaises(D) = "" THEN "ok" ELSE "error",
                cause |-> DecohRaises(D)]
    /\ IF DecohRaises(D) # ""
         THEN UNCHANGED <<nusq_bsm, decoh_model_kw>>
         ELSE /\ nusq_bsm' = IF tool = "nusquids"
                               THEN NusqSetDecoherence(nusq_bsm, D, n, E0)
                               ELSE nusq_bsm
              /\ decoh_model_kw' = IF tool = "deimos" THEN DecohKw(D, n, E0)
                                   ELSE decoh_model_kw

\* The matrices handed to the setters: all zeros, a diagonal of ones, a
\* diagonal that breaks the first inequality, and one of the wrong shape.
BsmMatrices(nn) ==
    {Zeros(nn), Ones(nn),
     Diag(nn, [k \in 1..(nn * nn - 1) |-> IF k = 1 THEN MaxGamma ELSE 0]),
     Zeros(5 - nn)}
Exponents == 0..MaxExponent

set_decoherence_D_matrix ==
    /\ Quiescent
    /\ \E D \in BsmMatrices(num_neutrinos), n \in Exponents :
          StoreDecoherence(D, n, 1, "set_decoherence_D_matrix")
    /\ UNCHANGED <<config, mattervars, oscvars, decohvars, lookup,
                   lightcone_model_kw, sme_model_kw, calc_basis>>

\* set_decoherence_model(model_name, gamma0_eV, n, E0_eV): the matrix of the
\* named model goes through set_decoherence_D_matrix.
set_decoherence_model ==
    /\ Quiescent
    /\ \E D \in BsmMatrices(num_neutrinos), n \in Exponents :
          StoreDecoherence(D, n, 1, "set_decoherence_model")
    /\ UNCHANGED <<config, mattervars, oscvars, decohvars, lookup,
                   lightcone_model_kw, sme_model_kw, calc_basis>>

\* np.diag([0,1,1,0,1,1,1,1,0]), the placeholder of
\* set_lightcone_fluctuations on nuSQuIDS.
PlaceholderD ==
    [p \in Idx(3) \X Idx(3) |->
        IF p[1] = p[2] /\ p[1] \in {1, 2, 4, 5, 6, 7} THEN 1 ELSE 0]

LightconeKw(dL0, L0, E0, n, m) ==
    [kind |-> "dict", dL0_km |-> dL0, L0_km |-> L0, E0_eV |-> E0, n |-> n, m |-> m]

\* set_lightcone_fluctuations(dL0_km, L0_km, E0_eV, n, m). The setters it
\* calls on nuSQuIDS exist on the decoherence variant only; on prob3 nothing
\* is stored and the call returns.
set_lightcone_fluctuations ==
    /\ Quiescent
    /\ \E n \in Exponents, m \in {1} :
        IF tool = "nusquids"
          THEN IF nusquids_variant # "nuSQUIDSDecoh"
                 THEN /\ last' = [op |-> "set_lightcone_fluctuations",
                                  status |-> "error", cause |-> "variant"]
                      /\ UNCHANGED <<nusq_bsm, lightcone_model_kw>>
                 ELSE /\ nusq_bsm' =
                            [NusqSetDecoherence(nusq_bsm, PlaceholderD, n, 1)
                               EXCEPT !.use_lightcone = TRUE,
                                      !.lightcone = [m |-> m, dL0 |-> 1, L0 |-> 1,
                                                     damping_power |-> 2]]
                      /\ last' = [op |-> "set_lightcone_fluctuations",
                                  status |-> "ok", cause |-> ""]
                      /\ UNCHANGED lightcone_model_kw
          ELSE /\ lightcone_model_kw' =
                     IF tool = "deimos" THEN LightconeKw(1, 1, 1, n, m)
                     ELSE lightcone_model_kw
               /\ last' = [op |-> "set_lightcone_fluctuations",
                           status |-> "ok", cause |-> ""]
               /\ UNCHANGED nusq_bsm
    /\ UNCHANGED <<config, mattervars, oscvars, decohvars, lookup,
                   decoh_model_kw, sme_model_kw, calc_basis>>

\* The input checks of set_sme without the one on the sky angles of the
\* directional mode.
SmeArgsOk_AnglesOptional(nn, directional, basis, a, c, e, ra, dec) ==
    /\ basis \in {"None", "flavor", "mass"}
    /\ IF directional
         THEN /\ a = NoTensor \/ a.shape = <<3, nn, nn>>
              /\ c = NoTensor \/ c.shape = <<3, nn, nn>>
              /\ e = NoTensor \/ e.shape = <<3, nn, nn>>
         ELSE /\ IsArray(a) /\ a.shape = <<nn, nn>>
              /\ IsArray(c) /\ c.shape = <<nn, nn>>
              /\ e = NoTensor
              /\ ra = None /\ dec = None

\* "Check inputs" of set_sme: the basis, then per mode the shapes of the
\* arrays (a missing array is np.zeros of the right shape in directional
\* mode) and the sky angles.
SmeArgsOk(nn, directional, basis, a, c, e, ra, dec) ==
    /\ basis \in {"None", "flavor", "mass"}
    /\ IF directional
         THEN /\ a = NoTensor \/ a.shape = <<3, nn, nn>>
              /\ c = NoTensor \/ c.shape = <<3, nn, nn>>
              /\ e = NoTensor \/ e.shape = <<3, nn, nn>>
              /\ ra # None /\ dec # None
         ELSE /\ IsArray(a) /\ a.shape = <<nn, nn>>
              /\ IsArray(c) /\ c.shape = <<nn, nn>>
              /\ e = NoTensor
              /\ ra = None /\ dec = None

\* An array argument of directional set_sme after the defaults are filled in.
OrZeros(t, shape) == IF t = NoTensor THEN Tensor(shape, 0) ELSE t

\* The dict set_sme stores on deimos: the isotropic one has no e and no
\* sky angles.
SmeKw(nn, directional, basis, a, c, e, ra, dec) ==
    IF directional
      THEN [kind |-> "dict", directional |-> TRUE, basis |-> basis,
            a_eV |-> OrZeros(a, <<3, nn, nn>>), c |-> OrZeros(c, <<3, nn, nn>>),
            e |-> OrZeros(e, <<3, nn, nn>>), ra_rad |-> ra, dec_rad |-> dec]
      ELSE [kind |-> "dict", directional |-> FALSE, basis |-> basis,
            a_eV |-> a, c |-> c]

\* nusquids.Set_LIVCoefficient(a_eV, c, e, ra_rad, dec_rad)
Set_LIVCoefficient(nb, a, c, e, ra, dec) ==
    [nb EXCEPT !.liv = [a_eV |-> a, c |-> c, e |-> e, ra_rad |-> ra, dec_rad |-> dec]]

\* Why set_sme raises after its input checks, "" if it does not: nuSQuIDS
\* takes directional mass-basis coefficients only, and only its LIV variant
\* has Set_LIVCoefficient; prob3 is not wrapped.
SmeRaises(directional, basis) ==
    IF tool = "nusquids"
      THEN IF ~directional THEN "isotropic"
           ELSE IF basis # "mass" THEN "basis"
           ELSE IF nusquids_variant # "nuSQUIDSLIV" THEN "variant"
           ELSE ""
    ELSE IF tool = "deimos" THEN ""
    ELSE "not_wrapped"

SmeBases == {"None", "flavor", "bogus"}
SkyAngles == {<<None, None>>, <<0, None>>, <<0, 0>>}
TensorArgs(nn, fill) ==
    {NoTensor, Tensor(<<3, nn, nn>>, fill), Tensor(<<nn, nn>>, fill)}

\* set_sme(directional, basis, a_eV, c, e, ra_rad, dec_rad)
set_sme ==
    /\ Quiescent
    /\ \E directional \in BOOLEAN, given \in SmeBases,
          a \in TensorArgs(num_neutrinos, 1), c \in TensorArgs(num_neutrinos, 0),
          e \in TensorArgs(num_neutrinos, 0), sky \in SkyAngles :
        LET basis == IF given = "None" THEN "mass" ELSE given
            ra == sky[1]
            dec == sky[2]
            cause == IF ~SmeArgsOk(num_neutrinos, directional, given, a, c, e, ra, dec)
                       THEN "inputs"
                       ELSE SmeRaises(directional, basis)
        IN  /\ last' = [op |-> "set_sme",
                        status |-> IF cause = "" THEN "ok" ELSE "error",
                        cause |-> cause]
            /\ IF cause # ""
                 THEN UNCHANGED <<nusq_bsm, sme_model_kw>>
                 ELSE IF tool = "nusquids"
                   THEN /\ nusq_bsm' =
                              Set_LIVCoefficient(nusq_bsm,
                                  OrZeros(a, <<3, num_neutrinos, num_neutrinos>>),
                                  OrZeros(c, <<3, num_neutrinos, num_neutrinos>>),
                                  OrZeros(e, <<3, num_neutrinos, num_neutrinos>>),
                                  ra, dec)
                        /\ UNCHANGED sme_model_kw
                   ELSE /\ sme_model_kw' =
                              SmeKw(num_neutrinos, directional, basis, a, c, e, ra, dec)
                        /\ UNCHANGED nusq_bsm
    /\ UNCHANGED <<config, mattervars, oscvars, decohvars, lookup,
                   decoh_model_kw, lightcone_model_kw, calc_basis>>

Bases == {"nxn", "sun"}

\* set_calc_basis(basis): checked on nuSQuIDS, stored on deimos, ignored
\* on prob3.
set_calc_basis ==
    /\ Quiescent
    /\ \E basis \in Bases :
         IF tool = "nusquids" /\ basis # "nxn"
           THEN /\ last' = [op |-> "set_calc_basis", status |-> "error", cause |-> "basis"]
                /\ UNCHANGED calc_basis
           ELSE /\ last' = [op |-> "set_calc_basis", status |-> "ok", cause |-> ""]
                /\ calc_basis' = IF tool = "deimos" THEN basis ELSE calc_basis
    /\ UNCHANGED <<config, mattervars, oscvars, decohvars, lookup,
                   decoh_model_kw, lightcone_model_kw, sme_model_kw, nusq_bsm>>

\* set_std_osc(): on nuSQuIDS a zero matrix for the decoherence variant and
\* zero coefficients for the LIV variant; on the other tools the keyword
\* dicts are dropped.
set_std_osc ==
    /\ Quiescent
    /\ LET nn == num_neutrinos
           null == Tensor(<<3, nn, nn>>, 0)
       IN  IF tool = "nusquids"
             THEN /\ nusq_bsm' =
                        IF nusquids_variant = "nuSQUIDSDecoh"
                          THEN NusqSetDecoherence(nusq_bsm, Zeros(nn), 0, 1)
                        ELSE IF nusquids_variant = "nuSQUIDSLIV"
                          THEN Set_LIVCoefficient(nusq_bsm, null, null, null, 0, 0)
                        ELSE nusq_bsm
                  /\ UNCHANGED <<decoh_model_kw, lightcone_model_kw, sme_model_kw>>
             ELSE /\ decoh_model_kw' = NoKw
                  /\ lightcone_model_kw' = NoKw
                  /\ sme_model_kw' = NoKw
                  /\ UNCHANGED nusq_bsm
    /\ last' = [op |-> "set_std_osc", status |-> "ok", cause |-> ""]
    /\ UNCHANGED <<config, mattervars, oscvars, decohvars, lookup, calc_basis>>

Variants == {"None", "nuSQUIDSDecoh", "nuSQUIDSLIV"}

\* State after OscCalculator.__init__, nusquids_variant included.
BsmInit ==
    /\ tool \in Tools
    /\ atmospheric = FALSE
    /\ num_neutrinos \in {2, 3}
    /\ flavors = SubSeq(FLAVORS, 1, num_neutrinos)
    /\ nusquids_variant \in IF tool = "nusquids" THEN Variants ELSE {"None"}
    /\ InitBackends
    /\ D_in = <<>>
    /\ verdict = Unchecked

BsmNext ==
    \/ set_decoherence_D_matrix
    \/ set_decoherence_model
    \/ set_lightcone_fluctuations
    \/ set_sme
    \/ set_calc_basis
    \/ set_std_osc

BsmSpec == BsmInit /\ [][BsmNext]_vars

\* ----------------------------------------------------------- flavor index
\* The checks of __init__ on the flavors: no duplicates, known labels only,
\* 2 or 3 of them.
FlavorsOk(fs) ==
    /\ \A j \in DOMAIN fs, k \in DOMAIN fs : fs[j] = fs[k] => j = k
    /\ \A k \in DOMAIN fs : \E l \in DOMAIN FLAVORS : fs[k] = FLAVORS[l]
    /\ Len(fs) \in {2, 3}

\* A string or an integer handed to _get_flavor_index.
StrArg(label) == [kind |-> "str", s |-> label]
IntArg(i) == [kind |-> "int", i |-> i]
FlavorArgs ==
    {StrArg(l) : l \in {"e", "nue", "mu", "numu", "tau", "nutau"}}
      \cup {IntArg(i) : i \in 0..3}

\* The index the string branch assigns (None for an unknown string).
LabelIndex(label) ==
    IF label \in {"e", "nue"} THEN 0
    ELSE IF label \in {"mu", "numu"} THEN 1
    ELSE IF label \in {"tau", "nutau"} THEN 2
    ELSE None

IndexReturned(i) == [raised |-> FALSE, error |-> "", index |-> i]
IndexRaised(e) == [raised |-> TRUE, error |-> e, index |-> None]

\* _get_flavor_index(flavor). The closing `assert flavor < self.num_neutrinos`
\* compares the argument itself, not the index: for a string that is a
\* comparison of str with int, which raises TypeError.
GetFlavorIndex(nn, flavor) ==
    LET index == IF flavor.kind = "str" THEN LabelIndex(flavor.s) ELSE flavor.i
    IN  IF flavor.kind = "int" /\ flavor.i \notin {0, 1, 2}
          THEN IndexRaised("AssertionError")
        ELSE IF flavor.kind = "str" THEN IndexRaised("TypeError")
        ELSE IF ~(flavor.i < nn) THEN IndexRaised("AssertionError")
        ELSE IndexReturned(index)

get_flavor_index ==
    /\ Quiescent
    /\ \E flavor \in FlavorArgs :
         lookup' = [op |-> "_get_flavor_index", flavor |-> flavor,
                    result |-> GetFlavorIndex(num_neutrinos, flavor)]
    /\ UNCHANGED <<config, mattervars, oscvars, decohvars, bsmvars, last>>

\* State after OscCalculator.__init__ for any flavors it accepts.
FlavorInit ==
    /\ tool \in Tools
    /\ atmospheric \in BOOLEAN
    /\ flavors \in {fs \in SeqsUpTo({FLAVORS[l] : l \in DOMAIN FLAVORS}, 3) :
                       FlavorsOk(fs)}
    /\ num_neutrinos = Len(flavors)
    /\ nusquids_variant = "None"
    /\ InitBackends
    /\ D_in = <<>>
    /\ verdict = Unchecked

FlavorNext == get_flavor_index

FlavorSpec == FlavorInit /\ [][FlavorNext]_vars

\* ================================================================ claims
\* Calls of the running / last calc_osc_prob issued for distance index i.
CallsFor(i) == SelectSeq(calls, LAMBDA c : c.iL = i)

\* Positions of the calls named op in a sequence of calls.
PositionsOf(cs, op) == {p \in DOMAIN cs : cs[p].op = op}

\* The nuSQuIDS baseline path is propagating (or has propagated) through
\* stored layers.
LayeredBaseline ==
    /\ tool = "nusquids"
    /\ ~atmospheric
    /\ matter_settings.matter = "layers"
    /\ LayerKeys \subseteq DOMAIN matter_settings

\* Start of layer k: 0 for the first layer, else the previous endpoint.
LayerStart(ends, k) == IF k = 1 THEN 0 ELSE ends[k - 1]

\* The sub-intervals of [0, L] implied by the layer endpoints: the layers
\* that start before L.
SubIntervals(ends, L) == {k \in DOMAIN ends : LayerStart(ends, k) < L}

\* Every layer has a positive thickness.
ProperLayers(ends) == \A k \in DOMAIN ends : LayerStart(ends, k) < ends[k]

\* C1: layered propagation of a distance L > 0 through layers of positive
\* thickness issues exactly one evolve call per sub-interval of [0, L]
\* implied by the layer endpoints, and supplies the initial state once,
\* before the first of them.
C1_OneEvolvePerSubInterval ==
    (LayeredBaseline /\ pc = "eval" /\ req.distance_km[i_L] > 0
       /\ ProperLayers(matter_settings.layer_endpoint_km)) =>
        LET cs == CallsFor(i_L)
            evolves == PositionsOf(cs, "EvolveState")
            inits == PositionsOf(cs, "Set_initial_state")
        IN  /\ Cardinality(evolves) =
                 Cardinality(SubIntervals(matter_settings.layer_endpoint_km,
                                          req.distance_km[i_L]))
            /\ Cardinality(inits) = 1
            /\ \A p \in inits, q \in evolves : p < q

\* C2: layered propagation of a distance L > 0 through layers of positive
\* thickness never hands the backend a track of zero or negative length:
\* no layer that starts at or beyond L triggers a Set_Track / EvolveState
\* call, and the layer loop has no iteration left once the running distance
\* equals L.
C2_NoEmptySegment ==
    (LayeredBaseline /\ pc \in {"layer_loop", "eval"} /\ req.distance_km[i_L] > 0
       /\ ProperLayers(matter_settings.layer_endpoint_km)) =>
        /\ \A p \in DOMAIN calls :
              (calls[p].layer > 0 /\ calls[p].iL = i_L) =>
                  /\ LayerStart(matter_settings.layer_endpoint_km, calls[p].layer)
                        < req.distance_km[i_L]
                  /\ calls[p].op = "Set_Track" => calls[p].arg.len > 0
        /\ (pc = "layer_loop" /\ L_so_far = req.distance_km[i_L])
              => i_layer > Len(matter_settings.layer_endpoint_km)

\* C3: with stored layers, the propagation of a distance L raises (layers
\* do not cover the baseline) exactly when L is greater than the final
\* endpoint, and then no backend call was issued for that L.
C3_CoverageDecides ==
    (LayeredBaseline /\ Len(matter_settings.layer_endpoint_km) > 0
       /\ i_L \in DOMAIN req.distance_km) =>
        LET L == req.distance_km[i_L]
            final == Last(matter_settings.layer_endpoint_km)
        IN  /\ pc = "failed" => (err = "coverage" /\ L > final /\ CallsFor(i_L) = <<>>)
            /\ pc \in {"layer_loop", "eval"} => L <= final
            /\ \A k \in DOMAIN results : results[k].L <= final

C3_Witness ==
    /\ LayeredBaseline
    /\ pc = "failed"
    /\ err = "coverage"
    /\ Len(results) = 1

UniformRun(n, d, e, L) ==
    PropagateWhole(Set_Body(n, ConstantDensity(d, e)), "ConstantDensity", L)

\* C5: a single layer ending exactly at L leaves the nuSQuIDS object, when
\* the state is evaluated, as Uniform matter of the same density and
\* electron fraction over L does.
C5_SingleLayerIsUniform ==
    (LayeredBaseline /\ pc = "eval"
       /\ Len(matter_settings.layer_endpoint_km) = 1
       /\ matter_settings.layer_endpoint_km[1] = req.distance_km[i_L]) =>
        nusq = UniformRun(nusq, matter_settings.matter_density_g_per_cm3[1],
                          matter_settings.electron_fraction[1],
                          req.distance_km[i_L])

C5_Witness ==
    /\ LayeredBaseline
    /\ pc = "eval"
    /\ Len(matter_settings.layer_endpoint_km) = 1
    /\ matter_settings.layer_endpoint_km[1] = req.distance_km[i_L]
    /\ req.distance_km[i_L] > 0
    /\ n_calls = 3

\* The arguments do not fit the mode: coszen in baseline mode, distance_km
\* in atmospheric mode, both, or neither.
WrongModeArgs ==
    \/ req.has_distance = req.has_coszen
    \/ (atmospheric /\ req.has_distance)
    \/ (~atmospheric /\ req.has_coszen)

\* C6: a calc_osc_prob call whose arguments do not fit the mode has raised
\* without a backend call and without a result, on every backend.
C6_WrongModeFailsFirst ==
    (last.op = "calc_osc_prob" /\ WrongModeArgs) =>
        /\ pc = "failed"
        /\ err = "mode"
        /\ last.status = "error"
        /\ calls = <<>>
        /\ results = <<>>

C6_Witness ==
    /\ pc = "failed"
    /\ err = "mode"
    /\ ~atmospheric
    /\ req.has_coszen
    /\ ~req.has_distance
    /\ tool = "nusquids"
    /\ matter_settings.matter = "layers"

\* C7: no call changes the calculation mode chosen at construction.
C7_ModeIsFixed == [][atmospheric' = atmospheric]_vars

C7_Witness ==
    /\ n_calls >= 2
    /\ pc = "done"
    /\ matter_settings.matter \notin {"vacuum", "None"}

\* C8: a set_matter call that raises leaves the recorded matter settings
\* and the medium of the backend as they were before the call.
C8_FailedSetMatterKeepsModel ==
    [][(n_calls' # n_calls /\ last'.op = "set_matter" /\ last'.status = "error") =>
          /\ matter_settings' = matter_settings
          /\ nusq'.body = nusq.body
          /\ solver_V' = solver_V
          /\ prob3_settings' = prob3_settings]_vars

\* The fields a matter model of a kind keeps in self._matter_settings and
\* in self._prob3_settings.
FieldsOfKind(kind) == IF kind = "layers" THEN {"matter"} \cup LayerKeys ELSE {"matter"}

Prob3FieldsOfKind(kind) ==
    IF kind = "constant" THEN {"matter", "matter_density_g_per_cm3"} ELSE {"matter"}

\* C9: after a successful set_matter call the matter state holds the fields
\* of the new model and nothing of the model configured before.
C9_ReplacedWholesale ==
    (last.op = "set_matter" /\ last.status = "ok") =>
        /\ matter_settings.matter = last.kind
        /\ DOMAIN matter_settings = FieldsOfKind(last.kind)
        /\ tool = "prob3" => DOMAIN prob3_settings = Prob3FieldsOfKind(last.kind)

\* C10: stored layer arrays come all three together, have one length, and
\* the endpoints never decrease; so set_matter("layers") has accepted no
\* input that breaks either condition.
C10_LayersWellFormed ==
    /\ (DOMAIN matter_settings) \cap LayerKeys # {} =>
          /\ matter_settings.matter = "layers"
          /\ LayerKeys \subseteq DOMAIN matter_settings
          /\ Len(matter_settings.layer_endpoint_km)
                = Len(matter_settings.matter_density_g_per_cm3)
          /\ Len(matter_settings.layer_endpoint_km)
                = Len(matter_settings.electron_fraction)
          /\ \A j, k \in DOMAIN matter_settings.layer_endpoint_km :
                j < k => matter_settings.layer_endpoint_km[j]
                            <= matter_settings.layer_endpoint_km[k]
    /\ (last.op = "set_matter" /\ last.status = "ok" /\ last.kind = "layers")
          => LayerKeys \subseteq DOMAIN matter_settings

C10_Witness ==
    /\ last.op = "set_matter"
    /\ last.status = "ok"
    /\ last.kind = "layers"
    /\ Len(matter_settings.layer_endpoint_km) = 2
    /\ matter_settings.layer_endpoint_km[1] < matter_settings.layer_endpoint_km[2]
    /\ n_calls >= 2

\* C11: in baseline mode no set_matter("earth") call returns successfully,
\* and no backend holds the Earth profile as its medium.
C11_EarthOnlyInAtmospheric ==
    ~atmospheric =>
        /\ ~(last.op = "set_matter" /\ last.status = "ok" /\ last.kind = "earth")
        /\ nusq.body.kind # "EarthAtm"
        /\ tool = "prob3" => prob3_settings.matter # "earth"

\* The matter variants a backend cannot represent.
Unsupported(t, kind) ==
    \/ t = "deimos" /\ kind \in {"earth", "variable", "layers"}
    \/ t = "prob3" /\ kind \in {"variable", "layers"}

\* C12: a set_matter call for a variant the backend cannot represent has
\* raised, and the backend holds nothing of that variant: no layer arrays
\* are stored outside nusquids and the prob3 settings never name it.
C12_UnsupportedVariantRaises ==
    /\ (last.op = "set_matter" /\ Unsupported(tool, last.kind)) =>
          /\ last.status = "error"
          /\ ~matter_ok
    /\ tool # "nusquids" => (DOMAIN matter_settings) \cap LayerKeys = {}
    /\ tool = "prob3" => prob3_settings.matter \notin {"variable", "layers"}

C12_Witness ==
    /\ tool = "prob3"
    /\ last.op = "set_matter"
    /\ last.kind = "layers"
    /\ last.status = "error"
    /\ "matter_density_g_per_cm3" \in DOMAIN prob3_settings
    /\ n_calls >= 2

\* C13: when the last set_matter call returned, a calc_osc_prob call does
\* not fail because the calculation path does not know, or does not
\* implement, the recorded matter kind.
C13_MatterValidationIsEager ==
    (matter_ok /\ pc = "failed") => err \notin {"unknown_matter", "not_implemented"}

\* C14: a calculation that got through with accepted, non-empty layers as
\* the matter model has issued, for every result, backend segment calls of the layer
\* loop, and evaluates states evolved through the layer media only.
C14_LayersNeverIgnored ==
    (matter_ok /\ matter_settings.matter = "layers" /\ pc \in {"return", "done"}
       /\ Len(matter_settings.layer_endpoint_km) > 0) =>
        \A k \in DOMAIN results :
            /\ \E p \in DOMAIN calls :
                  calls[p].op = "EvolveState" /\ calls[p].iL = k /\ calls[p].layer > 0
            /\ \A j \in DOMAIN results[k].state.segs :
                  \E l \in DOMAIN matter_settings.layer_endpoint_km :
                      results[k].state.segs[j].body =
                          ConstantDensity(matter_settings.matter_density_g_per_cm3[l],
                                          matter_settings.electron_fraction[l])

\* The optional arguments a setter call gave fit the flavor count: all
\* of them with 3 flavors, none of them with 2.
OptionalsFit(nn, optional, given) ==
    IF nn = 3 THEN optional \subseteq given ELSE optional \cap given = {}

\* The optional arguments of a setter.
OptionalsOf(op) ==
    IF op = "set_mixing_angles" THEN {"theta13", "theta23"} ELSE {"deltam31"}

\* C15: a set_mixing_angles / set_mass_splittings call returns exactly when
\* theta13, theta23 (deltam31) are all given on a 3-flavor calculator and
\* none of them on a 2-flavor one; a call that raises leaves the parameters
\* held by nuSQuIDS, the solver and the prob3 settings as they were.
C15_OptionalArgsByFlavorCount ==
    [][last'.op \in {"set_mixing_angles", "set_mass_splittings"} =>
          /\ (last'.status = "ok") <=>
                OptionalsFit(num_neutrinos, OptionalsOf(last'.op), last'.given)
          /\ last'.status = "error" => UNCHANGED oscvars]_vars

C15_Witness ==
    /\ num_neutrinos = 3
    /\ last.op = "set_mixing_angles"
    /\ last.status = "error"
    /\ last.given = {"theta12", "theta13", "deltacp"}
    /\ supplied.angles = <<2, 2, 2>>

\* C16: a getter returns, and returns the values last supplied to the
\* setter: one entry per angle, one per splitting of the flavor system.
C16_GettersRoundTrip ==
    /\ last.op = "get_mixing_angles" =>
          (last.status = "ok" /\ last.value = supplied.angles)
    /\ last.op = "get_mass_splittings" =>
          (last.status = "ok" /\ last.value = supplied.splittings)

\* The mixing parameters (angles and CP phase) and the mass splittings the
\* backends hold.
Prob3Keys(d, keys) == [k \in (DOMAIN d) \cap keys |-> d[k]]
MixingHeld ==
    <<nusq_osc.angle, nusq_osc.cp, solver_osc.theta_rad, solver_osc.deltacp,
      Prob3Keys(prob3_osc, {"theta12", "theta13", "theta23", "deltacp"})>>
SplittingsHeld ==
    <<nusq_osc.dm2, solver_osc.mass_splittings,
      Prob3Keys(prob3_osc, {"deltam21", "deltam31"})>>

\* The members of the two parameter groups of a flavor system.
MixingMembers(nn) ==
    IF nn = 3 THEN {"theta12", "theta13", "theta23", "deltacp"}
    ELSE {"theta12", "deltacp"}
SplittingMembers(nn) == IF nn = 3 THEN {"deltam21", "deltam31"} ELSE {"deltam21"}

\* C17: a call that changes the mixing parameters held by a backend was
\* given all mixing angles and the CP phase, and a call that changes the
\* mass splittings was given all of them.
C17_NoPartialMutation ==
    [][/\ MixingHeld' # MixingHeld =>
              MixingMembers(num_neutrinos) \subseteq last'.given
       /\ SplittingsHeld' # SplittingsHeld =>
              SplittingMembers(num_neutrinos) \subseteq last'.given]_vars

\* A matrix of zeros but for one negative entry on the diagonal.
OneNegativeDiagonal(nn, D) ==
    \E i \in Idx(nn) : D[<<i, i>>] < 0 /\ D = Override(Zeros(nn), i, i, D[<<i, i>>])

\* C18: once validated, a matrix of the size of the flavor system that is
\* zero but for one negative diagonal entry has been rejected, and the
\* all-zeros matrix has been accepted, with 2 and with 3 flavors.
C18_NegativeDiagonalRejected ==
    verdict # Unchecked =>
        /\ OneNegativeDiagonal(num_neutrinos, D_in) => verdict.raised
        /\ D_in = Zeros(num_neutrinos) => ~verdict.raised

\* The inequalities a 9x9 matrix that passed the earlier asserts violates.
Violated(D) ==
    {Inequalities[k] : k \in {l \in DOMAIN Inequalities :
                                 ~InequalityHolds(D)[Inequalities[l]]}}

PassesEarlierAsserts(D) == ShapeOk(D) /\ AllNonNegative(D) /\ PairsMatch(D)

\* C19: with 3 flavors, a matrix that violates exactly one inequality is
\* rejected with a message that names that inequality.
C19_ErrorNamesInequality ==
    (num_neutrinos = 3 /\ verdict # Unchecked /\ PassesEarlierAsserts(D_in)) =>
        \A name \in Violated(D_in) :
            Violated(D_in) = {name} =>
                /\ verdict.raised
                /\ verdict.message = InequalityMessage[name]
                /\ \A other \in DOMAIN InequalityMessage :
                      InequalityMessage[other] = verdict.message => other = name

\* C20: with 3 flavors, an accepted matrix is symmetric in every pair of
\* indices, row and column 0 included.
C20_AcceptedIsSymmetric ==
    (num_neutrinos = 3 /\ verdict # Unchecked /\ ~verdict.raised) =>
        \A i \in Idx(3), j \in Idx(3) : D_in[<<i, j>>] = D_in[<<j, i>>]

\* The decoherence matrices the calculator holds: the one of the deimos
\* keyword dict and the one handed to nuSQuIDS.
DecohHeld ==
    (IF decoh_model_kw.kind = "dict" THEN {decoh_model_kw.D_matrix0_eV} ELSE {})
      \cup (IF nusq_bsm.gamma # <<>> THEN {nusq_bsm.gamma} ELSE {})

RejectedByValidator ==
    /\ last.op \in {"set_decoherence_D_matrix", "set_decoherence_model"}
    /\ last.status = "error"
    /\ last.cause = "validation"

\* C21: a set_decoherence_D_matrix call whose matrix fails validation raises
\* and leaves the decoherence, lightcone and SME settings of the calculator
\* and of the backend as they were; every matrix held by a 3-flavor
\* calculator passes the validator.
C21_RejectedWithoutEffect ==
    /\ [](num_neutrinos = 3 =>
              \A D \in DecohHeld : ~CheckDMatrix(3, D).raised)
    /\ [][RejectedByValidator' => UNCHANGED bsmvars]_vars

\* A 3-flavor calculator that holds a matrix has just rejected another one.
C21_Witness ==
    /\ num_neutrinos = 3
    /\ RejectedByValidator
    /\ DecohHeld # {}

\* The backend can take the effect: deimos always, nuSQuIDS in the variant
\* built for it, prob3 never.
Capable(variant) ==
    \/ tool = "deimos"
    \/ tool = "nusquids" /\ nusquids_variant = variant

\* C22: set_decoherence_D_matrix and set_sme never return successfully on a
\* backend that lacks the capability (prob3, or nuSQuIDS built without the
\* matching variant).
C22_UnsupportedBackendFails ==
    /\ (last.op = "set_decoherence_D_matrix" /\ last.status = "ok")
          => Capable("nuSQUIDSDecoh")
    /\ (last.op = "set_sme" /\ last.status = "ok") => Capable("nuSQUIDSLIV")

\* The SME configurations the calculator holds: the deimos keyword dict and
\* the coefficients handed to nuSQuIDS (always directional).
SmeHeld ==
    (IF sme_model_kw.kind = "dict" THEN {sme_model_kw} ELSE {})
      \cup (IF nusq_bsm.liv # <<>>
              THEN {[directional |-> TRUE] @@ nusq_bsm.liv}
              ELSE {})

\* The shape of every coefficient array fits the mode and the flavor count,
\* and a directional configuration has both sky angles.
SmeWellFormed(kw, nn) ==
    IF kw.directional
      THEN /\ kw.a_eV.shape = <<3, nn, nn>>
           /\ kw.c.shape = <<3, nn, nn>>
           /\ kw.e.shape = <<3, nn, nn>>
           /\ kw.ra_rad # None
           /\ kw.dec_rad # None
      ELSE /\ kw.a_eV.shape = <<nn, nn>>
           /\ kw.c.shape = <<nn, nn>>

SmeRejected == last.op = "set_sme" /\ last.status = "error"

\* C23: what set_sme accepted has coefficient arrays of shape 3 x n x n
\* with both sky angles (directional) or n x n (isotropic), n the flavor
\* count; a set_sme call that fails leaves the stored SME configuration
\* as it was.
C23_SmeShapesAndAngles ==
    /\ [](\A kw \in SmeHeld : SmeWellFormed(kw, num_neutrinos))
    /\ [][SmeRejected' => UNCHANGED <<sme_model_kw, nusq_bsm>>]_vars

\* set_sme has just failed on its input checks while an accepted
\* configuration is held.
C23_Witness ==
    /\ SmeRejected
    /\ last.cause = "inputs"
    /\ SmeHeld # {}

\* C24: calc_osc_prob returns only if the backend result has shape
\* (N, M, flavor count) for N energies and M distances or cos-zenith values;
\* the returned tensor has lost the energy axis exactly when the energy was
\* a scalar and the distance axis exactly when the distance was a scalar,
\* and its last axis is the flavor axis, arrays of length 1 included.
C24_OutputShape ==
    osc_probs.returned =>
        LET N == req.energy_size
            M == DistSize(req)
        IN  /\ BackendShape(req, results) = <<N, M, num_neutrinos>>
            /\ osc_probs.shape =
                   (IF req.single_energy THEN <<>> ELSE <<N>>)
                     \o (IF req.single_dist THEN <<>> ELSE <<M>>)
                     \o <<num_neutrinos>>

\* A call with an energy array of length 1 and a scalar distance returned:
\* the energy axis is kept, the distance axis is gone.
C24_Witness ==
    /\ osc_probs.returned
    /\ ~req.single_energy /\ req.energy_size = 1
    /\ req.single_dist
    /\ osc_probs.shape = <<1, num_neutrinos>>

\* The distances of a request as _calc_osc_prob_deimos sees them: those
\* given, or those derived from the cos-zenith grid.
RequestedDistances(r) ==
    IF atmospheric
      THEN [k \in 1..Len(r.coszen) |-> calc_path_length_from_coszen(r.coszen[k])]
      ELSE r.distance_km

Descending(s) == Len(s) > 1 /\ \A k \in 1..(Len(s) - 1) : s[k] > s[k + 1]

DeimosSolved == tool = "deimos" /\ pc \in {"return", "done"}

\* C25: on deimos, when the distance grid (given, or derived from the
\* cos-zenith grid) is descending, the grid handed to the solver is
\* ascending, and row j of the result along the distance axis is the one
\* for the j-th distance of the caller.
C25_ReorderingIsTransparent ==
    (DeimosSolved /\ Descending(RequestedDistances(req))) =>
        LET asked == RequestedDistances(req)
            handed == calls[1].arg
        IN  /\ calls[1].op = "calc_osc_probs"
            /\ \A k \in 1..(Len(handed) - 1) : handed[k] < handed[k + 1]
            /\ Len(results) = Len(asked)
            /\ \A j \in 1..Len(asked) : results[j].L = asked[j]

\* A call with a descending grid has returned on deimos.
C25_Witness ==
    /\ DeimosSolved /\ pc = "done"
    /\ Descending(RequestedDistances(req))
    /\ osc_probs.returned

\* No decoherence, lightcone or SME setting was made on the calculator.
NothingBeyondStandard ==
    /\ decoh_model_kw.kind # "dict"
    /\ lightcone_model_kw.kind # "dict"
    /\ sme_model_kw.kind # "dict"
    /\ nusq_bsm = NoNusqBsm

\* C26: calc_osc_prob never returns a tensor with a non-finite entry, and,
\* with no decoherence and no SME configured, never returns one whose
\* probabilities do not sum to 1 over the final flavors.
C26_PostValidated ==
    osc_probs.returned =>
        /\ osc_probs.content # "non_finite"
        /\ NothingBeyondStandard => osc_probs.content = "unitary"

\* The last lookup was one of a flavor label of the calculator.
OwnLabelLookedUp ==
    /\ lookup.op = "_get_flavor_index"
    /\ lookup.flavor.kind = "str"
    /\ \E k \in DOMAIN flavors : flavors[k] = lookup.flavor.s

\* C27: the calculator has 2 or 3 distinct known flavor labels, and the
\* flavor-index lookup maps each of them to an index in 0..n-1, different
\* labels to different indices.
C27_FlavorIndexing ==
    /\ FlavorsOk(flavors) /\ num_neutrinos = Len(flavors)
    /\ OwnLabelLookedUp =>
          /\ ~lookup.result.raised
          /\ lookup.result.index \in 0..(num_neutrinos - 1)
          /\ \A k \in DOMAIN flavors :
                flavors[k] # lookup.flavor.s =>
                  GetFlavorIndex(num_neutrinos, StrArg(flavors[k])).index
                    # lookup.result.index

\* The Set_Track calls of the layer loop of distance i, in the order issued.
LayerTracks(i) ==
    SelectSeq(CallsFor(i), LAMBDA c : c.op = "Set_Track" /\ c.layer > 0)

RECURSIVE TrackLength(_, _)
\* Sum of the first n segment lengths of a sequence of Set_Track calls.
TrackLength(tracks, n) ==
    IF n = 0 THEN 0 ELSE TrackLength(tracks, n - 1) + tracks[n].arg.len

Min(a, b) == IF a < b THEN a ELSE b

ActiveTerms ==
    (IF decoh_model_kw.kind = "dict" THEN {"decoherence"} ELSE {})
      \cup (IF lightcone_model_kw.kind = "dict" THEN {"lightcone"} ELSE {})
      \cup (IF sme_model_kw.kind = "dict" THEN {"sme"} ELSE {})
      \cup (IF nusq_bsm.gamma \notin {<<>>, Zeros(2), Zeros(3)}
              THEN {"decoherence"} ELSE {})
      \cup (IF nusq_bsm.use_lightcone THEN {"lightcone"} ELSE {})
      \cup (IF nusq_bsm.liv # <<>>
                /\ \E t \in {nusq_bsm.liv.a_eV, nusq_bsm.liv.c, nusq_bsm.liv.e} :
                      t.fill # 0
              THEN {"sme"} ELSE {})

\* C29: once set_std_osc has returned, no decoherence, lightcone or SME
\* term is active for the next calculation, whatever setters were called
\* before, on every backend and variant.
C29_StdOscDisablesAll ==
    (last.op = "set_std_osc" /\ last.status = "ok") => ActiveTerms = {}

\* What drives a calculation: the oscillation parameters held by the three
\* backends, the recorded matter model with the potential / settings the
\* backends were given, the calculation basis and the decoherence,
\* lightcone and SME settings.  The body held by nuSQuIDS belongs to it
\* unless the matter is "layers", where every calculation sets the body
\* layer by layer from self._matter_settings.
Configuration ==
    <<nusq_osc, solver_osc, prob3_osc, matter_settings, solver_V,
      prob3_settings, calc_basis, decoh_model_kw, lightcone_model_kw,
      sme_model_kw, nusq_bsm,
      IF matter_settings.matter = "layers" THEN Vacuum ELSE nusq.body>>

====
